---- MODULE Spec2Model ----
(***************************************************************************)
(* Model of dashboard/lib/algo.ts: treeBfs, graphBfs and                   *)
(* getConnectedComponent.  Nodes are opaque identities 1..MaxNodes; a      *)
(* node's nextNodes is an ordered list of node identities.  A shell node   *)
(* is identified by the node it wraps (its val).                           *)
(***************************************************************************)
EXTENDS Integers, Sequences, FiniteSets, TLC

MaxNodes == 3
MaxLen == 3
MaxEdges == 3
MaxCalls == 2
MaxTreeNodes == 4

Node == 1..MaxNodes
TreeNode == 1..MaxTreeNodes

VARIABLES
  nodes,          \* the argument of getConnectedComponent (a sequence of nodes)
  nextNodes,      \* nextNodes of every input node (the caller's objects)
  pc,             \* position in the running function
  mapKeys,        \* keys of node2shellNodes in insertion order
  shell,          \* node2shellNodes: key -> [val, nextNodes, g]
  i, j,           \* loop positions of the outer/inner for-of loops
  cnt,            \* let cnt
  root,           \* the root argument of the running traversal
  queue,          \* queue of the running traversal
  visitedNodes,   \* visitedNodes of the running graphBfs
  stop,           \* the nodes for which the caller's step returns true
  group,          \* const group (the value returned)
  log,            \* the nodes passed to step, in call order
  run,            \* number of the current getConnectedComponent call
  prev            \* value returned by the previous call

vars == <<nodes, nextNodes, pc, mapKeys, shell, i, j, cnt, root, queue,
          visitedNodes, stop, group, log, run, prev>>

Range(s) == {s[x] : x \in DOMAIN s}

SeqUpTo(S, n) == UNION {[1..m -> S] : m \in 0..n}

\* the successors of n in a list of edges <<from, to>>, in list order
Targets(es, n) ==
  LET sel == SelectSeq(es, LAMBDA e : e[1] = n)
  IN  [x \in 1..Len(sel) |-> sel[x][2]]

NoShells == [x \in {} |-> 0]

\* Node identities are opaque and the code never compares them, so an input
\* is taken up to renaming: its nodes are numbered in order of first
\* occurrence, either upwards from 1 or downwards from MaxNodes.
Numbered(ns) ==
  \A x \in DOMAIN ns :
    \/ \E y \in 1..(x - 1) : ns[y] = ns[x]
    \/ ns[x] = 1 + Cardinality({ns[y] : y \in 1..(x - 1)})

Inputs ==
  LET up == {ns \in SeqUpTo(Node, MaxLen) : Numbered(ns)}
  IN  up \cup {[x \in DOMAIN ns |-> MaxNodes + 1 - ns[x]] : ns \in up}

----------------------------------------------------------------------------
(* util.newMatrix(n): n empty rows *)
NewMatrix(n) == [x \in 1..n |-> <<>>]

(* new shell node, algo.ts 78-82 *)
ShellNode(node) == [val |-> node, nextNodes |-> <<>>, g |-> -1]

MapSetKeysAlwaysAppend(keys, node) == Append(keys, node)

(* Map.set: an existing key keeps its position *)
MapSetKeys(keys, node) ==
  IF node \in Range(keys) THEN keys ELSE Append(keys, node)

MapSet(m, node, sh) ==
  [x \in (DOMAIN m) \cup {node} |-> IF x = node THEN sh ELSE m[x]]

graphBfsLoopIgnoringStep(q, vis, nbr, stepRet) ==
  LET c == Head(q)
      v == vis \cup {c}
  IN  [visitedNodes |-> v,
       queue |-> Tail(q) \o SelectSeq(nbr, LAMBDA n : n \notin v)]

(* one pass of the while loop of graphBfs on queue q with visited set vis: *)
(* nbr is c[key], stepRet the value step(c) returned                       *)
graphBfsLoop(q, vis, nbr, stepRet) ==
  LET c == Head(q)
      v == vis \cup {c}
  IN  [visitedNodes |-> v,
       queue |-> IF stepRet THEN Tail(q)
                 ELSE Tail(q) \o SelectSeq(nbr, LAMBDA n : n \notin v)]

treeBfsLoopIgnoringStep(q, nbr, stepRet) == Tail(q) \o nbr

(* one pass of the while loop of treeBfs *)
treeBfsLoop(q, nbr, stepRet) ==
  IF stepRet THEN Tail(q) ELSE Tail(q) \o nbr

(* the callback of getConnectedComponent: c.g = shellNode.g *)
AssignGroup(sh, c, r) == [sh EXCEPT ![c].g = sh[r].g]

----------------------------------------------------------------------------
(* getConnectedComponent *)

Init ==
  \E ns \in Inputs :
  \E es \in SeqUpTo(Range(ns) \X Range(ns), MaxEdges) :
    /\ nodes = ns
    /\ nextNodes = [n \in Node |-> Targets(es, n)]
    /\ pc = "create"
    /\ mapKeys = <<>>
    /\ shell = NoShells
    /\ i = 1
    /\ j = 1
    /\ cnt = 0
    /\ root = 0
    /\ queue = <<>>
    /\ visitedNodes = {}
    /\ stop = {}
    /\ group = <<>>
    /\ log = <<>>
    /\ run = 1
    /\ prev = <<>>

\* for (const node of nodes) node2shellNodes.set(node, shellNode)
CreateShell ==
  /\ pc = "create"
  /\ i <= Len(nodes)
  /\ mapKeys' = MapSetKeys(mapKeys, nodes[i])
  /\ shell' = MapSet(shell, nodes[i], ShellNode(nodes[i]))
  /\ i' = i + 1
  /\ UNCHANGED <<nodes, nextNodes, pc, j, cnt, root, queue, visitedNodes,
                 stop, group, log, run, prev>>

\* the first loop is over; the link loop starts
CreateDone ==
  /\ pc = "create"
  /\ i > Len(nodes)
  /\ pc' = "link"
  /\ i' = 1
  /\ j' = 1
  /\ UNCHANGED <<nodes, nextNodes, mapKeys, shell, cnt, root, queue,
                 visitedNodes, stop, group, log, run, prev>>

PushForwardOnly(sh, node, nextNode) ==
  [sh EXCEPT ![node].nextNodes = Append(@, nextNode)]

\* shellNode.nextNodes.push(nextShellNode); nextShellNode.nextNodes.push(shellNode)
PushBoth(sh, node, nextNode) ==
  LET s1 == [sh EXCEPT ![node].nextNodes = Append(@, nextNode)]
  IN  [s1 EXCEPT ![nextNode].nextNodes = Append(@, node)]

LinkEdgeInPlace ==
  /\ pc = "link"
  /\ i <= Len(nodes)
  /\ j <= Len(nextNodes[nodes[i]])
  /\ shell' = PushForwardOnly(shell, nodes[i], nextNodes[nodes[i]][j])
  /\ nextNodes' = [nextNodes EXCEPT ![nextNodes[nodes[i]][j]] =
                                      Append(@, nodes[i])]
  /\ j' = j + 1
  /\ UNCHANGED <<nodes, pc, mapKeys, i, cnt, root, queue, visitedNodes, stop,
                 group, log, run, prev>>

\* for (const nextNode of node.nextNodes): the two pushes
LinkEdge ==
  /\ pc = "link"
  /\ i <= Len(nodes)
  /\ j <= Len(nextNodes[nodes[i]])
  /\ shell' = PushBoth(shell, nodes[i], nextNodes[nodes[i]][j])
  /\ j' = j + 1
  /\ UNCHANGED <<nodes, nextNodes, pc, mapKeys, i, cnt, root, queue,
                 visitedNodes, stop, group, log, run, prev>>

\* node.nextNodes is exhausted: next node
LinkNext ==
  /\ pc = "link"
  /\ i <= Len(nodes)
  /\ j > Len(nextNodes[nodes[i]])
  /\ i' = i + 1
  /\ j' = 1
  /\ UNCHANGED <<nodes, nextNodes, pc, mapKeys, shell, cnt, root, queue,
                 visitedNodes, stop, group, log, run, prev>>

LinkDoneKeepingCnt ==
  /\ pc = "link"
  /\ i > Len(nodes)
  /\ pc' = "assign"
  /\ i' = 1
  /\ UNCHANGED <<nodes, nextNodes, mapKeys, shell, j, cnt, root, queue,
                 visitedNodes, stop, group, log, run, prev>>

\* the link loop is over; let cnt = 0; the assignment loop starts
LinkDone ==
  /\ pc = "link"
  /\ i > Len(nodes)
  /\ pc' = "assign"
  /\ i' = 1
  /\ cnt' = 0
  /\ UNCHANGED <<nodes, nextNodes, mapKeys, shell, j, root, queue,
                 visitedNodes, stop, group, log, run, prev>>

AssignSeedPreIncrement ==
  /\ pc = "assign"
  /\ i <= Len(mapKeys)
  /\ shell[mapKeys[i]].g = -1
  /\ shell' = [shell EXCEPT ![mapKeys[i]].g = cnt + 1]
  /\ cnt' = cnt + 1
  /\ root' = mapKeys[i]
  /\ queue' = <<mapKeys[i]>>
  /\ visitedNodes' = {}
  /\ pc' = "bfs"
  /\ UNCHANGED <<nodes, nextNodes, mapKeys, i, j, stop, group, log, run, prev>>

\* shellNode.g === -1: shellNode.g = cnt++; graphBfs(shellNode, ...) starts
AssignSeed ==
  /\ pc = "assign"
  /\ i <= Len(mapKeys)
  /\ shell[mapKeys[i]].g = -1
  /\ shell' = [shell EXCEPT ![mapKeys[i]].g = cnt]
  /\ cnt' = cnt + 1
  /\ root' = mapKeys[i]
  /\ queue' = <<mapKeys[i]>>
  /\ visitedNodes' = {}
  /\ pc' = "bfs"
  /\ UNCHANGED <<nodes, nextNodes, mapKeys, i, j, stop, group, log, run, prev>>

\* shellNode.g !== -1: next key
AssignSkip ==
  /\ pc = "assign"
  /\ i <= Len(mapKeys)
  /\ shell[mapKeys[i]].g # -1
  /\ i' = i + 1
  /\ UNCHANGED <<nodes, nextNodes, pc, mapKeys, shell, j, cnt, root, queue,
                 visitedNodes, stop, group, log, run, prev>>

\* one pass of graphBfs's loop over the shell graph, with the callback
BfsStep ==
  /\ pc = "bfs"
  /\ queue # <<>>
  /\ LET c == Head(queue)
         r == graphBfsLoop(queue, visitedNodes, shell[c].nextNodes, FALSE)
     IN  /\ shell' = AssignGroup(shell, c, root)
         /\ visitedNodes' = r.visitedNodes
         /\ queue' = r.queue
         /\ log' = Append(log, c)
  /\ UNCHANGED <<nodes, nextNodes, pc, mapKeys, i, j, cnt, root, stop, group,
                 run, prev>>

BfsNeverReturns ==
  /\ pc = "bfs"
  /\ Len(queue) < 0
  /\ pc' = "assign"
  /\ i' = i + 1
  /\ UNCHANGED <<nodes, nextNodes, mapKeys, shell, j, cnt, root, queue,
                 visitedNodes, stop, group, log, run, prev>>

\* while (queue.length) fails: graphBfs returns, the for loop advances
BfsReturn ==
  /\ pc = "bfs"
  /\ Len(queue) = 0
  /\ pc' = "assign"
  /\ i' = i + 1
  /\ UNCHANGED <<nodes, nextNodes, mapKeys, shell, j, cnt, root, queue,
                 visitedNodes, stop, group, log, run, prev>>

\* the assignment loop is over; const group = newMatrix(cnt)
AssignDone ==
  /\ pc = "assign"
  /\ i > Len(mapKeys)
  /\ group' = NewMatrix(cnt)
  /\ pc' = "bucket"
  /\ i' = 1
  /\ UNCHANGED <<nodes, nextNodes, mapKeys, shell, j, cnt, root, queue,
                 visitedNodes, stop, log, run, prev>>

BucketUnshift ==
  /\ pc = "bucket"
  /\ i <= Len(mapKeys)
  /\ group' = [group EXCEPT ![shell[mapKeys[i]].g + 1] = <<mapKeys[i]>> \o @]
  /\ i' = i + 1
  /\ UNCHANGED <<nodes, nextNodes, pc, mapKeys, shell, j, cnt, root, queue,
                 visitedNodes, stop, log, run, prev>>

\* group[shellNode.g].push(node)
Bucket ==
  /\ pc = "bucket"
  /\ i <= Len(mapKeys)
  /\ group' = [group EXCEPT ![shell[mapKeys[i]].g + 1] = Append(@, mapKeys[i])]
  /\ i' = i + 1
  /\ UNCHANGED <<nodes, nextNodes, pc, mapKeys, shell, j, cnt, root, queue,
                 visitedNodes, stop, log, run, prev>>

\* return group
Return ==
  /\ pc = "bucket"
  /\ i > Len(mapKeys)
  /\ pc' = "done"
  /\ UNCHANGED <<nodes, nextNodes, mapKeys, shell, i, j, cnt, root, queue,
                 visitedNodes, stop, group, log, run, prev>>

\* the caller calls getConnectedComponent(nodes) again: a new Map is made,
\* the other locals are set where the function declares them
CallAgain ==
  /\ pc = "done"
  /\ run < MaxCalls
  /\ run' = run + 1
  /\ prev' = group
  /\ pc' = "create"
  /\ mapKeys' = <<>>
  /\ shell' = NoShells
  /\ i' = 1
  /\ log' = <<>>
  /\ UNCHANGED <<nodes, nextNodes, j, cnt, root, queue, visitedNodes, stop,
                 group>>

Next ==
  \/ CreateShell
  \/ CreateDone
  \/ LinkEdge
  \/ LinkNext
  \/ LinkDone
  \/ AssignSeed
  \/ AssignSkip
  \/ BfsStep
  \/ BfsReturn
  \/ AssignDone
  \/ Bucket
  \/ Return

Spec == Init /\ [][Next]_vars

RepeatNext ==
  \/ Next
  \/ CallAgain

RepeatSpec == Init /\ [][RepeatNext]_vars

FairSpec == Init /\ [][Next]_vars /\ WF_vars(Next)

----------------------------------------------------------------------------
(* graphBfs on an arbitrary graph, called with the default neighborListKey *)

GraphBfsInit ==
  \E es \in SeqUpTo(Node \X Node, MaxEdges) :
  \E r \in Node :
  \E st \in SUBSET Node :
    /\ nodes = <<>>
    /\ nextNodes = [n \in Node |-> Targets(es, n)]
    /\ pc = "graphBfs"
    /\ mapKeys = <<>>
    /\ shell = NoShells
    /\ i = 1
    /\ j = 1
    /\ cnt = 0
    /\ root = r
    /\ queue = <<r>>
    /\ visitedNodes = {}
    /\ stop = st
    /\ group = <<>>
    /\ log = <<>>
    /\ run = 1
    /\ prev = <<>>

GraphBfsStep ==
  /\ pc = "graphBfs"
  /\ queue # <<>>
  /\ LET c == Head(queue)
         r == graphBfsLoop(queue, visitedNodes, nextNodes[c], c \in stop)
     IN  /\ visitedNodes' = r.visitedNodes
         /\ queue' = r.queue
         /\ log' = Append(log, c)
  /\ UNCHANGED <<nodes, nextNodes, pc, mapKeys, shell, i, j, cnt, root, stop,
                 group, run, prev>>

GraphBfsReturn ==
  /\ pc = "graphBfs"
  /\ Len(queue) = 0
  /\ pc' = "returned"
  /\ UNCHANGED <<nodes, nextNodes, mapKeys, shell, i, j, cnt, root, queue,
                 visitedNodes, stop, group, log, run, prev>>

GraphBfsNext ==
  \/ GraphBfsStep
  \/ GraphBfsReturn

GraphBfsSpec == GraphBfsInit /\ [][GraphBfsNext]_vars

----------------------------------------------------------------------------
(* treeBfs on a tree rooted at node 1 *)

RECURSIVE LeadsToRoot(_, _, _)
LeadsToRoot(par, c, fuel) ==
  IF c = 1 THEN TRUE
  ELSE IF fuel = 0 THEN FALSE
  ELSE LeadsToRoot(par, par[c], fuel - 1)

\* parent maps of the trees on 1..n with root 1
ParentMaps(n) ==
  {par \in [2..n -> 1..n] : \A c \in 2..n : LeadsToRoot(par, c, n)}

Perms(S) ==
  {f \in [1..Cardinality(S) -> S] : \A x, y \in DOMAIN f : x # y => f[x] # f[y]}

TreeBfsInit ==
  \E n \in 1..MaxTreeNodes :
  \E par \in ParentMaps(n) :
  \E ord \in Perms(2..n) :
  \E st \in SUBSET (1..n) :
    /\ nodes = <<>>
    /\ nextNodes = [p \in TreeNode |->
                      Targets([x \in 1..(n - 1) |-> <<par[ord[x]], ord[x]>>], p)]
    /\ pc = "treeBfs"
    /\ mapKeys = <<>>
    /\ shell = NoShells
    /\ i = 1
    /\ j = 1
    /\ cnt = 0
    /\ root = 1
    /\ queue = <<1>>
    /\ visitedNodes = {}
    /\ stop = st
    /\ group = <<>>
    /\ log = <<>>
    /\ run = 1
    /\ prev = <<>>

TreeBfsStep ==
  /\ pc = "treeBfs"
  /\ queue # <<>>
  /\ LET c == Head(queue)
     IN  /\ queue' = treeBfsLoop(queue, nextNodes[c], c \in stop)
         /\ log' = Append(log, c)
  /\ UNCHANGED <<nodes, nextNodes, pc, mapKeys, shell, i, j, cnt, root,
                 visitedNodes, stop, group, run, prev>>

TreeBfsReturn ==
  /\ pc = "treeBfs"
  /\ Len(queue) = 0
  /\ pc' = "returned"
  /\ UNCHANGED <<nodes, nextNodes, mapKeys, shell, i, j, cnt, root, queue,
                 visitedNodes, stop, group, log, run, prev>>

TreeBfsNext ==
  \/ TreeBfsStep
  \/ TreeBfsReturn

TreeBfsSpec == TreeBfsInit /\ [][TreeBfsNext]_vars

FairTreeBfsSpec == TreeBfsInit /\ [][TreeBfsNext]_vars /\ WF_vars(TreeBfsNext)

----------------------------------------------------------------------------
(* Vocabulary of the properties of getConnectedComponent *)

\* an edge between a and b in either direction
Adjacent(a, b) ==
  \/ b \in Range(nextNodes[a])
  \/ a \in Range(nextNodes[b])

RECURSIVE Grow(_)
Grow(S) ==
  LET T == S \cup {b \in Node : \E a \in S : Adjacent(a, b)}
  IN  IF T = S THEN S ELSE Grow(T)

\* the nodes joined to a by a path of edges followed in either direction
Component(a) == Grow({a})

Connected(a, b) == b \in Component(a)

Components == {Component(a) : a \in Range(nodes)}

\* the positions <<row, column>> of the returned matrix
Cells == UNION {{<<x, y>> : y \in DOMAIN group[x]} : x \in DOMAIN group}

CellsOf(n) == {c \in Cells : group[c[1]][c[2]] = n}

SameGroup(a, b) ==
  \E x \in DOMAIN group : a \in Range(group[x]) /\ b \in Range(group[x])

\* position of the first occurrence of n in the input
FirstPos(n) == CHOOSE x \in DOMAIN nodes :
                 nodes[x] = n /\ \A y \in 1..(x - 1) : nodes[y] # n

Returned == pc = "done"

\* C1: in the returned value two input nodes share a group if and only if
\* a path of nextNodes edges, followed in either direction, joins them.
SameGroupIffConnected ==
  Returned =>
    \A a, b \in Range(nodes) : SameGroup(a, b) <=> Connected(a, b)

SameGroupIffConnectedWitness ==
  /\ Returned
  /\ Len(group) >= 2
  /\ \E a, b \in Range(nodes) : a # b /\ SameGroup(a, b)
  /\ \E a, b \in Range(nodes) : ~ Connected(a, b)

\* C2: the returned value is a partition of the input: every input node is
\* at exactly one position of the matrix and every entry is an input node.
OutputIsPartition ==
  Returned =>
    /\ \A n \in Range(nodes) : Cardinality(CellsOf(n)) = 1
    /\ \A c \in Cells : group[c[1]][c[2]] \in Range(nodes)

OutputIsPartitionWitness ==
  /\ Returned
  /\ Len(nodes) = MaxLen
  /\ Cardinality(Range(nodes)) < Len(nodes)
  /\ Len(group) >= 2

\* C3: no step of the call writes the input collection or the nextNodes of
\* an input node.
InputNeverChanged ==
  [][nodes' = nodes /\ nextNodes' = nextNodes]_vars

InputNeverChangedWitness ==
  /\ Returned
  /\ \E n \in Range(nodes) :
       /\ nextNodes[n] # <<>>
       /\ Len(shell[n].nextNodes) > Len(nextNodes[n])
       /\ shell[n].g >= 0

\* C4: groups are ordered by the input position of their first node, and
\* inside a group the nodes keep their input order.
OutputFollowsInputOrder ==
  Returned =>
    /\ \A x, y \in DOMAIN group :
         (group[x] # <<>> /\ group[y] # <<>>) =>
           (x < y <=> FirstPos(group[x][1]) < FirstPos(group[y][1]))
    /\ \A x \in DOMAIN group : \A p, q \in DOMAIN group[x] :
         p < q => FirstPos(group[x][p]) < FirstPos(group[x][q])

OutputFollowsInputOrderWitness ==
  /\ Returned
  /\ Len(nodes) = 3
  /\ nodes[1] > nodes[2]
  /\ group = << <<nodes[1], nodes[3]>>, <<nodes[2]>> >>

\* C6: every call returns, and every graphBfs run empties its queue.
CallTerminates ==
  /\ (pc = "create") ~> (pc = "done")
  /\ (pc = "bfs") ~> (pc = "bfs" /\ queue = <<>>)

CallTerminatesWitness ==
  /\ Returned
  /\ \E n \in Range(nodes) : n \in Range(nextNodes[n])
  /\ \E a, b \in Range(nodes) :
       a # b /\ b \in Range(nextNodes[a]) /\ a \in Range(nextNodes[b])

\* C7: a second call on the same input returns the same number of groups,
\* with the same node set at every position.
SecondCallAgrees ==
  (Returned /\ run > 1) =>
    /\ Len(group) = Len(prev)
    /\ \A x \in DOMAIN group : Range(group[x]) = Range(prev[x])

SecondCallAgreesWitness ==
  /\ Returned
  /\ run = 2
  /\ Len(prev) >= 2
  /\ \E x \in DOMAIN prev : Len(prev[x]) >= 2

GroupIds == {shell[n].g : n \in DOMAIN shell}

\* C10: during group assignment the identifiers handed out are exactly
\* 0..cnt-1; when the loop is over none is -1, and the returned value has
\* one non-empty group per connected component.
GroupIdsDense ==
  /\ pc \in {"assign", "bfs"} => GroupIds \ {-1} = 0..(cnt - 1)
  /\ pc \in {"bucket", "done"} => GroupIds = 0..(cnt - 1)
  /\ Returned =>
       /\ Len(group) = Cardinality(Components)
       /\ \A x \in DOMAIN group : group[x] # <<>>
       /\ nodes = <<>> => group = <<>>
       /\ (Len(nodes) = 1 /\ nextNodes[nodes[1]] = <<>>) =>
            group = << <<nodes[1]>> >>

GroupIdsDenseWitness ==
  /\ Returned
  /\ cnt = 2
  /\ Cardinality(DOMAIN shell) = 3

----------------------------------------------------------------------------
(* Vocabulary of the properties of the traversals *)

Succ(a) == Range(nextNodes[a])

RECURSIVE GrowDown(_, _)
GrowDown(S, closed) ==
  LET T == S \cup UNION {Succ(a) : a \in S \ closed}
  IN  IF T = S THEN S ELSE GrowDown(T, closed)

\* the nodes a path from root leads to
Reachable == GrowDown({root}, {})

\* the nodes a path from root leads to on which step returned false for
\* every node before the last
ReachableOpen == GrowDown({root}, stop)

Parent(n) == CHOOSE p \in DOMAIN nextNodes : n \in Succ(p)

RECURSIVE Depth(_)
Depth(n) == IF n = root THEN 0 ELSE 1 + Depth(Parent(n))

RECURSIVE Ancestors(_)
Ancestors(n) ==
  IF n = root THEN {} ELSE {Parent(n)} \cup Ancestors(Parent(n))

NoRepeat(s) == \A x, y \in DOMAIN s : x # y => s[x] # s[y]

\* C5: graphBfs invokes step at most once on any node and, when step never
\* returns true, exactly once on every node reachable from the root.
StepOnlyOncePerNode ==
  /\ NoRepeat(log)
  /\ (pc = "returned" /\ stop = {}) => Range(log) = Reachable

\* C8: on a tree, treeBfs returns, having invoked step exactly once on every
\* node with no proper ancestor on which step returned true and on no other
\* node, and never invokes step on a node after a deeper one.
TreeBfsVisitsOpenNodesByDepth ==
  /\ [](pc \in {"treeBfs", "returned"} =>
          /\ NoRepeat(log)
          /\ \A x \in DOMAIN log : Ancestors(log[x]) \cap stop = {}
          /\ \A x, y \in DOMAIN log : x < y => Depth(log[x]) <= Depth(log[y]))
  /\ [](pc = "returned" =>
          Range(log) = {n \in Reachable : Ancestors(n) \cap stop = {}})
  /\ <>(pc = "returned")

TreeBfsVisitsOpenNodesByDepthWitness ==
  /\ pc = "returned"
  /\ Len(log) >= 3
  /\ \E n \in Range(log) : n \in stop /\ nextNodes[n] # <<>>
  /\ \E n \in Range(log) : Depth(n) = 2

\* C9: graphBfs passes to step only the root and neighbours of nodes on
\* which step returned false; a visit on which step returns true enqueues
\* nothing.
StopPrunesNeighbours ==
  /\ [](pc \in {"graphBfs", "returned"} =>
          /\ \A x \in DOMAIN log :
               \/ log[x] = root
               \/ \E y \in 1..(x - 1) :
                    log[y] \notin stop /\ log[x] \in Succ(log[y])
          /\ Range(log) \subseteq ReachableOpen
          /\ Range(queue) \subseteq ReachableOpen)
  /\ [][(pc = "graphBfs" /\ queue # <<>> /\ Head(queue) \in stop) =>
          queue' = Tail(queue)]_vars

StopPrunesNeighboursWitness ==
  /\ pc = "returned"
  /\ Len(log) >= 2
  /\ \E n \in Range(log) :
       /\ n \in stop
       /\ \E m \in Succ(n) : m \notin Range(log) /\ m \in Reachable

====
